---------------------------- MODULE Spec2Model ----------------------------
(***************************************************************************)
(* Model of app.py, the WhatsApp expense bot: the webhook handler, the     *)
(* interpretation pipeline interpretar_gasto and its deterministic         *)
(* helpers, and the catalogue loader cargar_catalogo.                      *)
(*                                                                         *)
(* A Python str is a sequence of one-character strings; the token "n~"     *)
(* stands for the single character n-with-tilde and "o'" for o-acute       *)
(* ("N~" and "O'" are their capitals).                                     *)
(* Amounts (Python floats) are integers counting hundredths.               *)
(***************************************************************************)
EXTENDS Integers, Sequences, FiniteSets, TLC

(***************************************************************************)
(* Characters                                                              *)
(***************************************************************************)
Minusculas ==
  <<"a","b","c","d","e","f","g","h","i","j","k","l","m","n","o","p","q",
    "r","s","t","u","v","w","x","y","z","n~","o'">>

Mayusculas ==
  <<"A","B","C","D","E","F","G","H","I","J","K","L","M","N","O","P","Q",
    "R","S","T","U","V","W","X","Y","Z","N~","O'">>

Digitos == <<"0","1","2","3","4","5","6","7","8","9">>

Rango(seq) == {seq[i] : i \in DOMAIN seq}

Letras == Rango(Minusculas) \cup Rango(Mayusculas)

\* \d
ClaseD == Rango(Digitos)

\* \w (Python 3 str pattern: alphanumerics and the underscore)
ClaseW == Letras \cup ClaseD \cup {"_"}

\* \s
ClaseS == {" "}

Alfabeto == ClaseW \cup ClaseS \cup {",", ".", "-", "+", "/", "$", "&"}

\* str.lower() / str.upper() on one character
LowerTab ==
  [c \in Alfabeto |->
     IF c \in Rango(Mayusculas)
     THEN Minusculas[CHOOSE i \in DOMAIN Mayusculas : Mayusculas[i] = c]
     ELSE c]

UpperTab ==
  [c \in Alfabeto |->
     IF c \in Rango(Minusculas)
     THEN Mayusculas[CHOOSE i \in DOMAIN Minusculas : Minusculas[i] = c]
     ELSE c]

\* value of a digit character
ValorDigito(c) == (CHOOSE i \in DOMAIN Digitos : Digitos[i] = c) - 1

(***************************************************************************)
(* Local values.  Unico({e : x \in {v}}) is e with x naming the value v:   *)
(* the definitions below name their intermediate values this way, each     *)
(* computed once, in the order the code assigns them.                      *)
(***************************************************************************)
Unico(S) == CHOOSE x \in S : TRUE

(***************************************************************************)
(* Python str methods                                                      *)
(***************************************************************************)
\* s.lower()
Lower(s0) == Unico({[i \in DOMAIN s |-> LowerTab[s[i]]] : s \in {s0}})

\* s[a:b] with 1-based inclusive bounds; empty when a > b
Sub(s, a, b) == IF a > b THEN <<>> ELSE SubSeq(s, a, b)

\* s.startswith(p)
StartsWith(s, p) == Len(p) <= Len(s) /\ SubSeq(s, 1, Len(p)) = p

\* sub in s
Contains(s0, sub0) ==
  \E s \in {s0}, sub \in {sub0} :
    \E i \in 1..(Len(s) - Len(sub) + 1) : SubSeq(s, i, i + Len(sub) - 1) = sub

\* s.find(c), s.rfind(c) for a one-character c: 0 stands for Python's -1
Find(s0, c) ==
  Unico({IF \E i \in DOMAIN s : s[i] = c
         THEN CHOOSE i \in DOMAIN s : s[i] = c /\ \A j \in 1..(i - 1) : s[j] # c
         ELSE 0 : s \in {s0}})

RFind(s0, c) ==
  Unico({IF \E i \in DOMAIN s : s[i] = c
         THEN CHOOSE i \in DOMAIN s :
                s[i] = c /\ \A j \in (i + 1)..Len(s) : s[j] # c
         ELSE 0 : s \in {s0}})

\* s.strip(chars): drop leading and trailing characters that are in cs
StripChars(s0, cs) ==
  Unico({IF \A i \in DOMAIN s : s[i] \in cs THEN <<>>
         ELSE SubSeq(s,
                CHOOSE a \in DOMAIN s :
                  s[a] \notin cs /\ \A j \in 1..(a - 1) : s[j] \in cs,
                CHOOSE b \in DOMAIN s :
                  s[b] \notin cs /\ \A j \in (b + 1)..Len(s) : s[j] \in cs)
         : s \in {s0}})

\* s.strip()
Strip(s) == StripChars(s, ClaseS)

\* the last position of the run of non-whitespace characters that starts at i
FinDePalabra(s, i) ==
  CHOOSE j \in i..Len(s) :
    /\ \A k \in i..j : s[k] \notin ClaseS
    /\ (j = Len(s) \/ s[j + 1] \in ClaseS)

\* s.split(): the maximal runs of non-whitespace characters, in order
RECURSIVE SplitFrom(_, _)
SplitFrom(s0, i0) ==
  Unico({IF \A k \in i..Len(s) : s[k] \in ClaseS THEN <<>>
         ELSE Unico({<<SubSeq(s, ini, FinDePalabra(s, ini))>>
                       \o SplitFrom(s, FinDePalabra(s, ini) + 1)
                     : ini \in {CHOOSE k \in i..Len(s) :
                                  /\ s[k] \notin ClaseS
                                  /\ \A j \in i..(k - 1) : s[j] \in ClaseS}})
         : s \in {s0}, i \in {i0}})

Split(s) == SplitFrom(s, 1)

\* " ".join(ws)
RECURSIVE Join(_)
Join(ws0) ==
  Unico({IF ws = <<>> THEN <<>>
         ELSE IF Len(ws) = 1 THEN ws[1]
         ELSE ws[1] \o <<" ">> \o Join(Tail(ws))
         : ws \in {ws0}})

\* w.capitalize(): first character upper-cased, the rest lower-cased
Capitalize(w0) ==
  Unico({[i \in DOMAIN w |-> IF i = 1 THEN UpperTab[w[i]] ELSE LowerTab[w[i]]]
         : w \in {w0}})

\* s.replace(c, ""), for a one-character c: of one character, else of the
\* two halves
RECURSIVE Quitar(_, _)
Quitar(s0, c) ==
  Unico({IF Len(s) <= 1 THEN (IF s = <<c>> THEN <<>> ELSE s)
         ELSE Quitar(SubSeq(s, 1, Len(s) \div 2), c)
                \o Quitar(SubSeq(s, (Len(s) \div 2) + 1, Len(s)), c)
         : s \in {s0}})

(***************************************************************************)
(* Regular expressions (module re): a backtracking matcher.                *)
(* A pattern is a record; Coincidencias(re, s, st) is the sequence of      *)
(* match states reachable from state st, in the order the backtracking     *)
(* matcher tries them (greedy repetitions longest first, alternatives left *)
(* to right), so its head is the match Python reports.  A state is         *)
(* [p: next position, gs, ge: span of capture group 1 (0, 0 when unset)].  *)
(***************************************************************************)
\* one character of the set cs
Chr(cs) == [op |-> "chr", cs |-> cs]
\* concatenation
Cat(rs) == [op |-> "cat", rs |-> rs]
\* alternation a|b|...
Alt(rs) == [op |-> "alt", rs |-> rs]
\* greedy repetition r{lo,hi}
Rep(r, lo, hi) == [op |-> "rep", r |-> r, lo |-> lo, hi |-> hi]
\* r+ and r? (a negative hi is no upper limit)
Plus(r) == [op |-> "rep", r |-> r, lo |-> 1, hi |-> 0 - 1]
Opt(r) == [op |-> "rep", r |-> r, lo |-> 0, hi |-> 1]
\* \b
Wb == [op |-> "wb"]
\* ^
Bos == [op |-> "bos"]
\* capture group (r)
Grp(r) == [op |-> "grp", r |-> r]

\* a literal word, case-sensitive
Lit(w) == Cat([i \in DOMAIN w |-> Chr({w[i]})])
\* a literal word under re.IGNORECASE
LitI(w) == Cat([i \in DOMAIN w |-> Chr({LowerTab[w[i]], UpperTab[w[i]]})])

\* \b holds at position p (between s[p-1] and s[p])
EsLimite(s, p) ==
  (p > 1 /\ p - 1 <= Len(s) /\ s[p - 1] \in ClaseW)
    # (p <= Len(s) /\ s[p] \in ClaseW)

\* the states sub of a group's pattern, with the group's span recorded
MarcarGrupo(sub0, p0) ==
  Unico({[i \in DOMAIN sub |-> [sub[i] EXCEPT !.gs = p, !.ge = sub[i].p - 1]]
         : sub \in {sub0}, p \in {p0}})

\* the last position of the run of characters of cs that starts at p
\* (p - 1 when there is none)
FinDeRacha(cs, s, p) ==
  CHOOSE e \in (p - 1)..Len(s) :
    /\ \A j \in p..e : s[j] \in cs
    /\ (e = Len(s) \/ s[e + 1] \notin cs)

\* the states after tope, tope - 1, ..., lo characters
Conteos(st0, lo0, tope0) ==
  Unico({IF tope < lo THEN <<>>
         ELSE [k \in 1..(tope - lo + 1) |-> [st EXCEPT !.p = st.p + tope - k + 1]]
         : st \in {st0}, lo \in {lo0}, tope \in {tope0}})

\* greedy repetition of one character class: the run of class characters at
\* st.p, longest count first, down to lo
CoincidenciasRepChr(re, s, st) ==
  Unico({Conteos(st, re.lo, IF re.hi < 0 \/ run < re.hi THEN run ELSE re.hi)
         : run \in {FinDeRacha(re.r.cs, s, st.p) - st.p + 1}})

RECURSIVE Coincidencias(_, _, _)
RECURSIVE CoincidenciasCat(_, _, _, _)
RECURSIVE CoincidenciasAlt(_, _, _, _)
RECURSIVE CoincidenciasRep(_, _, _, _)
RECURSIVE Encadenar(_, _, _, _)
RECURSIVE Seguir(_, _, _, _, _)

Coincidencias(re0, s0, st0) ==
  Unico({(CASE re.op = "chr" ->
                 IF st.p <= Len(s) /\ s[st.p] \in re.cs
                 THEN <<[st EXCEPT !.p = st.p + 1]>> ELSE <<>>
            [] re.op = "wb" -> IF EsLimite(s, st.p) THEN <<st>> ELSE <<>>
            [] re.op = "bos" -> IF st.p = 1 THEN <<st>> ELSE <<>>
            [] re.op = "cat" -> CoincidenciasCat(re.rs, 1, s, st)
            [] re.op = "alt" -> CoincidenciasAlt(re.rs, 1, s, st)
            [] re.op = "rep" ->
                 IF re.r.op = "chr" THEN CoincidenciasRepChr(re, s, st)
                 ELSE CoincidenciasRep(re, s, st, 0)
            [] re.op = "grp" -> MarcarGrupo(Coincidencias(re.r, s, st), st.p))
         : re \in {re0}, s \in {s0}, st \in {st0}})

\* continue each state of sts, in order, with the patterns rs[k..]: one
\* state, else the two halves of sts
Encadenar(sts0, rs, k, s) ==
  Unico({IF sts = <<>> THEN <<>>
         ELSE IF Len(sts) = 1 THEN CoincidenciasCat(rs, k, s, sts[1])
         ELSE Encadenar(SubSeq(sts, 1, Len(sts) \div 2), rs, k, s)
                \o Encadenar(SubSeq(sts, (Len(sts) \div 2) + 1, Len(sts)),
                             rs, k, s)
         : sts \in {sts0}})

CoincidenciasCat(rs0, k0, s0, st0) ==
  Unico({IF k > Len(rs) THEN <<st>>
         ELSE Encadenar(Coincidencias(rs[k], s, st), rs, k + 1, s)
         : rs \in {rs0}, k \in {k0}, s \in {s0}, st \in {st0}})

CoincidenciasAlt(rs0, k0, s, st) ==
  Unico({IF k > Len(rs) THEN <<>>
         ELSE Coincidencias(rs[k], s, st) \o CoincidenciasAlt(rs, k + 1, s, st)
         : rs \in {rs0}, k \in {k0}})

\* one more iteration from each state of us that consumed a character: one
\* state, else the two halves of us
Seguir(us0, re, s, p, n) ==
  Unico({IF us = <<>> THEN <<>>
         ELSE IF Len(us) = 1
           THEN (IF us[1].p > p THEN CoincidenciasRep(re, s, us[1], n)
                 ELSE <<>>)
         ELSE Seguir(SubSeq(us, 1, Len(us) \div 2), re, s, p, n)
                \o Seguir(SubSeq(us, (Len(us) \div 2) + 1, Len(us)), re, s, p, n)
         : us \in {us0}})

\* greedy: one more iteration first, then stopping here
CoincidenciasRep(re0, s0, st0, n1) ==
  Unico({(IF re.hi < 0 \/ n < re.hi
          THEN Seguir(Coincidencias(re.r, s, st), re, s, st.p, n + 1)
          ELSE <<>>) \o (IF n >= re.lo THEN <<st>> ELSE <<>>)
         : re \in {re0}, s \in {s0}, st \in {st0}, n \in {n1}})

SinCoincidencia == [ok |-> FALSE, ini |-> 0, fin |-> 0, gs |-> 0, ge |-> 0]

\* re.search(re, s): the leftmost match, or SinCoincidencia.
\* ini..fin is the matched span, gs..ge the span of group 1.
Search(re0, s0) ==
  Unico({Unico({
      IF inicios = {} THEN SinCoincidencia
      ELSE Unico({Unico({[ok |-> TRUE, ini |-> i, fin |-> ms[1].p - 1,
                          gs |-> ms[1].gs, ge |-> ms[1].ge]
                         : ms \in {Coincidencias(re, s,
                                                 [p |-> i, gs |-> 0, ge |-> 0])}})
                  : i \in {CHOOSE k \in inicios : \A j \in inicios : k <= j}})
      : inicios \in {{k \in 1..(Len(s) + 1) :
                        Coincidencias(re, s, [p |-> k, gs |-> 0, ge |-> 0])
                          # <<>>}}})
    : re \in {re0}, s \in {s0}})

\* m.group(1)
Grupo1(m, s) == Sub(s, m.gs, m.ge)

(***************************************************************************)
(* Dates (datetime.date, timedelta, isoformat, fromisoformat)              *)
(***************************************************************************)
Bisiesto(y) == (y % 4 = 0 /\ y % 100 # 0) \/ y % 400 = 0

DiasDelMes(y, m) ==
  IF m = 2 THEN (IF Bisiesto(y) THEN 29 ELSE 28)
  ELSE IF m \in {4, 6, 9, 11} THEN 30 ELSE 31

DiaSiguiente(f) ==
  IF f.d < DiasDelMes(f.y, f.m) THEN [f EXCEPT !.d = f.d + 1]
  ELSE IF f.m < 12 THEN [y |-> f.y, m |-> f.m + 1, d |-> 1]
  ELSE [y |-> f.y + 1, m |-> 1, d |-> 1]

DiaAnterior(f) ==
  IF f.d > 1 THEN [f EXCEPT !.d = f.d - 1]
  ELSE IF f.m > 1 THEN [y |-> f.y, m |-> f.m - 1, d |-> DiasDelMes(f.y, f.m - 1)]
  ELSE [y |-> f.y - 1, m |-> 12, d |-> 31]

\* f + timedelta(days=k)
RECURSIVE MasDias(_, _)
MasDias(f0, k0) ==
  Unico({IF k = 0 THEN f
         ELSE IF k > 0 THEN MasDias(DiaSiguiente(f), k - 1)
         ELSE MasDias(DiaAnterior(f), k + 1)
         : f \in {f0}, k \in {k0}})

DosDigitos(n) == <<Digitos[((n \div 10) % 10) + 1], Digitos[(n % 10) + 1]>>

\* date.isoformat(): YYYY-MM-DD
isoformat(f0) ==
  Unico({DosDigitos(f.y \div 100) \o DosDigitos(f.y % 100) \o <<"-">>
           \o DosDigitos(f.m) \o <<"-">> \o DosDigitos(f.d)
         : f \in {f0}})

Numero2(s, i) == 10 * ValorDigito(s[i]) + ValorDigito(s[i + 1])

\* datetime.fromisoformat(s) returns (does not raise ValueError), for the
\* strings without a time part: exactly YYYY-MM-DD naming a calendar day.
fromisoformat_ok(s0) ==
  \E s \in {s0} :
    /\ Len(s) = 10
    /\ s[5] = "-" /\ s[8] = "-"
    /\ \A i \in {1, 2, 3, 4, 6, 7, 9, 10} : s[i] \in ClaseD
    /\ \E y \in {100 * Numero2(s, 1) + Numero2(s, 3)},
          m \in {Numero2(s, 6)}, d \in {Numero2(s, 9)} :
         y >= 1 /\ m \in 1..12 /\ d >= 1 /\ d <= DiasDelMes(y, m)

(***************************************************************************)
(* Words of the source                                                     *)
(***************************************************************************)
s_hoy == <<"h","o","y">>
s_ayer == <<"a","y","e","r">>
s_antier == <<"a","n","t","i","e","r">>
s_antes_de_ayer == <<"a","n","t","e","s"," ","d","e"," ","a","y","e","r">>
s_manana == <<"m","a","n~","a","n","a">>
s_pasado_manana == <<"p","a","s","a","d","o"," ","m","a","n~","a","n","a">>
s_dani == <<"d","a","n","i">>
s_daniela == <<"d","a","n","i","e","l","a">>
s_lui == <<"l","u","i">>
s_luisa == <<"l","u","i","s","a">>
s_transferencia == <<"t","r","a","n","s","f","e","r","e","n","c","i","a">>
s_transfer == <<"t","r","a","n","s","f","e","r">>
s_spei == <<"s","p","e","i">>
s_efectivo == <<"e","f","e","c","t","i","v","o">>
s_tarjeta == <<"t","a","r","j","e","t","a">>
s_tdd == <<"t","d","d">>
s_tdc == <<"t","d","c">>
s_renta == <<"r","e","n","t","a">>
s_con == <<"c","o","n">>
s_en == <<"e","n">>

MESES_ES ==
  << <<"e","n","e","r","o">>, <<"f","e","b","r","e","r","o">>,
     <<"m","a","r","z","o">>, <<"a","b","r","i","l">>, <<"m","a","y","o">>,
     <<"j","u","n","i","o">>, <<"j","u","l","i","o">>,
     <<"a","g","o","s","t","o">>,
     <<"s","e","p","t","i","e","m","b","r","e">>,
     <<"s","e","t","i","e","m","b","r","e">>,
     <<"o","c","t","u","b","r","e">>,
     <<"n","o","v","i","e","m","b","r","e">>,
     <<"d","i","c","i","e","m","b","r","e">> >>


(***************************************************************************)
(* CATALOGO: normalizar_desc                                               *)
(***************************************************************************)
\* " ".join(s.lower().split()), for s a str (the caller's `s or ""` and the
\* AttributeError of a non-str are in interpretar_gasto and cargar_catalogo)
normalizar_desc(s) == Join(Split(Lower(s)))

(***************************************************************************)
(* FECHA                                                                   *)
(***************************************************************************)
\* \b\d{4}-\d{1,2}-\d{1,2}\b
re_fecha_iso ==
  Cat(<<Wb, Rep(Chr(ClaseD), 4, 4), Chr({"-"}), Rep(Chr(ClaseD), 1, 2),
        Chr({"-"}), Rep(Chr(ClaseD), 1, 2), Wb>>)

\* \b\d{1,2}[/-]\d{1,2}([/-]\d{2,4})?\b
re_fecha_dm ==
  Cat(<<Wb, Rep(Chr(ClaseD), 1, 2), Chr({"/", "-"}), Rep(Chr(ClaseD), 1, 2),
        Opt(Grp(Cat(<<Chr({"/", "-"}), Rep(Chr(ClaseD), 2, 4)>>))), Wb>>)

\* \b(hoy|ayer|antier|antes de ayer|mañana|pasado mañana)\b
re_fecha_rel ==
  Cat(<<Wb, Grp(Alt(<<Lit(s_hoy), Lit(s_ayer), Lit(s_antier),
                      Lit(s_antes_de_ayer), Lit(s_manana),
                      Lit(s_pasado_manana)>>)), Wb>>)

texto_menciona_fecha(texto) ==
  \E t \in {Lower(texto)} :
    IF \E i \in DOMAIN MESES_ES : Contains(t, MESES_ES[i]) THEN TRUE
    ELSE IF Search(re_fecha_iso, t).ok THEN TRUE
    ELSE IF Search(re_fecha_dm, t).ok THEN TRUE
    ELSE IF Search(re_fecha_rel, t).ok THEN TRUE
    ELSE FALSE

\* Variant of fecha_relativa that tests "ayer" before "antes de ayer" and
\* "man~ana" before "pasado man~ana"
fecha_relativa_corta_primero(texto, hoy) ==
  Unico({IF Contains(t, s_ayer) THEN isoformat(MasDias(hoy, 0 - 1))
         ELSE IF Contains(t, s_antes_de_ayer) \/ Contains(t, s_antier)
           THEN isoformat(MasDias(hoy, 0 - 2))
         ELSE IF Contains(t, s_manana) THEN isoformat(MasDias(hoy, 1))
         ELSE IF Contains(t, s_pasado_manana) THEN isoformat(MasDias(hoy, 2))
         ELSE IF Contains(t, s_hoy) THEN isoformat(hoy)
         ELSE <<>>
         : t \in {Lower(texto)}})

\* the ISO date, or <<>> for None; hoy is datetime.now().date()
fecha_relativa(texto, hoy) ==
  Unico({IF Contains(t, s_antes_de_ayer) \/ Contains(t, s_antier)
           THEN isoformat(MasDias(hoy, 0 - 2))
         ELSE IF Contains(t, s_ayer) THEN isoformat(MasDias(hoy, 0 - 1))
         ELSE IF Contains(t, s_pasado_manana) THEN isoformat(MasDias(hoy, 2))
         ELSE IF Contains(t, s_manana) THEN isoformat(MasDias(hoy, 1))
         ELSE IF Contains(t, s_hoy) THEN isoformat(hoy)
         ELSE <<>>
         : t \in {Lower(texto)}})

(***************************************************************************)
(* PAGADO POR, METODO                                                      *)
(***************************************************************************)
detectar_pagado_por(texto) ==
  Unico({IF Contains(t, s_lui) \/ Contains(t, s_luisa) THEN <<"L","u","i">>
         ELSE IF Contains(t, s_dani) \/ Contains(t, s_daniela)
           THEN <<"D","a","n","i">>
         ELSE <<>>
         : t \in {Lower(texto)}})

detectar_metodo(texto) ==
  Unico({IF Contains(t, s_transferencia) \/ Contains(t, s_spei)
              \/ Contains(t, s_transfer)
           THEN s_transferencia
         ELSE IF Contains(t, s_efectivo) THEN s_efectivo
         ELSE IF Contains(t, s_tarjeta) \/ Contains(t, s_tdd)
                   \/ Contains(t, s_tdc)
           THEN s_tarjeta
         ELSE <<>>
         : t \in {Lower(texto)}})

(***************************************************************************)
(* DESCRIPCION: limpiar_descripcion                                        *)
(***************************************************************************)
\* ^(dani|daniela|lui|luisa)\b under re.IGNORECASE
re_pagador_inicial ==
  Cat(<<Bos, Grp(Alt(<<LitI(s_dani), LitI(s_daniela), LitI(s_lui),
                       LitI(s_luisa)>>)), Wb>>)

prefijos ==
  << <<"c","o","m","p","r","a"," ","e","n"," ">>,
     <<"g","a","s","t","o"," ","e","n"," ">>,
     <<"p","a","g","o"," ","e","n"," ">>,
     <<"p","a","g","o"," ","a"," ">>,
     <<"p","a","g","o"," ","d","e"," ">>,
     <<"s","e","r","v","i","c","i","o"," ","d","e"," ">>,
     <<"s","e","r","v","i","c","i","o"," ">>,
     <<"s","u","s","c","r","i","p","c","i","o'","n"," ","a"," ">>,
     <<"s","u","s","c","r","i","p","c","i","o","n"," ","a"," ">>,
     <<"r","e","c","a","r","g","a"," ">>,
     <<"r","e","c","a","r","g","a"," ","a"," ">>,
     <<"e","n"," ">> >>

articulos ==
  << <<"e","l"," ">>, <<"l","a"," ">>, <<"l","o","s"," ">>,
     <<"l","a","s"," ">>, <<"u","n"," ">>, <<"u","n","a"," ">> >>

\* for p in ps[k..]: if d.startswith(p): d = d[len(p):].strip()
RECURSIVE QuitarPrefijos(_, _, _)
QuitarPrefijos(d0, ps0, k0) ==
  Unico({IF k > Len(ps) THEN d
         ELSE IF StartsWith(d, ps[k])
           THEN QuitarPrefijos(Strip(Sub(d, Len(ps[k]) + 1, Len(d))), ps, k + 1)
         ELSE QuitarPrefijos(d, ps, k + 1)
         : d \in {d0}, ps \in {ps0}, k \in {k0}})

\* re.sub(re_pagador_inicial, "", d).strip()
QuitarPagadorInicial(d0) ==
  Unico({Strip(IF m.ok THEN Sub(d, m.fin + 1, Len(d)) ELSE d)
         : d \in {d0}, m \in {Search(re_pagador_inicial, d0)}})

\* " ".join(w.capitalize() for w in d.split())
Capitalizar(d) ==
  Unico({Join([i \in DOMAIN ws |-> Capitalize(ws[i])]) : ws \in {Split(d)}})

\* d = normalizar_desc(desc), then the payer, the prefixes and the articles
\* are removed, in this order, and the words are capitalized
limpiar_descripcion(desc) ==
  Capitalizar(
    QuitarPrefijos(
      QuitarPrefijos(QuitarPagadorInicial(normalizar_desc(desc)), prefijos, 1),
      articulos, 1))

(***************************************************************************)
(* FALLBACK (regex)                                                        *)
(***************************************************************************)
\* float() of a run of digits with an optional fraction, in hundredths
\* (exact for at most two fraction digits)
RECURSIVE ValorEntero(_)
ValorEntero(ds0) ==
  Unico({IF ds = <<>> THEN 0
         ELSE 10 * ValorEntero(SubSeq(ds, 1, Len(ds) - 1))
                + ValorDigito(ds[Len(ds)])
         : ds \in {ds0}})

ValorDecimal(s0) ==
  Unico({IF p = 0 THEN 100 * ValorEntero(s)
         ELSE 100 * ValorEntero(Sub(s, 1, p - 1))
                + (IF Len(s) - p = 1 THEN 10 * ValorEntero(Sub(s, p + 1, Len(s)))
                   ELSE ValorEntero(Sub(s, p + 1, p + 2)))
         : s \in {s0}, p \in {Find(s0, ".")}})

\* \b(\d+(?:\.\d+)?)\b
re_monto ==
  Cat(<<Wb, Grp(Cat(<<Plus(Chr(ClaseD)),
                      Opt(Cat(<<Chr({"."}), Plus(Chr(ClaseD))>>))>>)), Wb>>)

extraer_monto_regex(texto) ==
  Unico({Unico({IF ~m.ok THEN 0 ELSE ValorDecimal(Grupo1(m, t))
                : m \in {Search(re_monto, t)}})
         : t \in {Quitar(texto, ",")}})

\* [A-Za-zÁÉÍÓÚÑáéíóúñ0-9&\-_\.]
ClaseToken == Letras \cup ClaseD \cup {"&", "-", "_", "."}

\* tarjeta\s+([A-Za-zÁÉÍÓÚÑáéíóúñ0-9&\-_\.]+) under re.IGNORECASE
re_tarjeta ==
  Cat(<<LitI(s_tarjeta), Plus(Chr(ClaseS)), Grp(Plus(Chr(ClaseToken)))>>)

\* \bcon\s+([A-Za-zÁÉÍÓÚÑáéíóúñ0-9&\-_\.]+)\b under re.IGNORECASE
re_con ==
  Cat(<<Wb, LitI(s_con), Plus(Chr(ClaseS)), Grp(Plus(Chr(ClaseToken))), Wb>>)

extraer_tarjeta_regex(texto) ==
  Unico({IF m1.ok THEN Strip(Grupo1(m1, texto))
         ELSE IF m2.ok /\ ~Contains(Lower(Grupo1(m2, texto)), s_transfer)
                       /\ ~Contains(Lower(Grupo1(m2, texto)), s_efectivo)
           THEN Strip(Grupo1(m2, texto))
         ELSE <<>>
         : m1 \in {Search(re_tarjeta, texto)}, m2 \in {Search(re_con, texto)}})

pagadores == {s_dani, s_daniela, s_lui, s_luisa}

\* \brenta\b under re.IGNORECASE
re_renta == Cat(<<Wb, LitI(s_renta), Wb>>)

\* \ben\s+([A-Za-zÁÉÍÓÚÑáéíóúñ0-9&\-\._ ]+) under re.IGNORECASE
re_en_x ==
  Cat(<<Wb, LitI(s_en), Plus(Chr(ClaseS)),
        Grp(Plus(Chr(ClaseToken \cup {" "})))>>)

\* \b(con|por|para|el|la|los|las)\b under re.IGNORECASE
re_corte ==
  Cat(<<Wb, Grp(Alt(<<LitI(s_con), LitI(<<"p","o","r">>),
                      LitI(<<"p","a","r","a">>), LitI(<<"e","l">>),
                      LitI(<<"l","a">>), LitI(<<"l","o","s">>),
                      LitI(<<"l","a","s">>)>>)), Wb>>)

\* \b([A-Za-zÁÉÍÓÚÑáéíóúñ0-9&\-\._ ]+)\s+con\s+tarjeta\b under re.IGNORECASE
re_x_con_tarjeta ==
  Cat(<<Wb, Grp(Plus(Chr(ClaseToken \cup {" "}))), Plus(Chr(ClaseS)),
        LitI(s_con), Plus(Chr(ClaseS)), LitI(s_tarjeta), Wb>>)

\* re.split(re_corte, c)[0]: the text before the first match
AntesDelCorte(c0) ==
  Unico({IF m.ok THEN Sub(c, 1, m.ini - 1) ELSE c
         : c \in {c0}, m \in {Search(re_corte, c0)}})

\* re.findall(r"[A-Za-zÁÉÍÓÚÑáéíóúñ0-9&\-\._]+", t)[-1], or <<>> when the
\* list is empty
UltimaPalabra(t0) ==
  Unico({IF \A i \in DOMAIN t : t[i] \notin ClaseToken THEN <<>>
         ELSE Unico({SubSeq(t,
                       CHOOSE a \in 1..b :
                         /\ \A k \in a..b : t[k] \in ClaseToken
                         /\ (a = 1 \/ t[a - 1] \notin ClaseToken),
                       b)
                     : b \in {CHOOSE i \in DOMAIN t :
                                /\ t[i] \in ClaseToken
                                /\ \A j \in (i + 1)..Len(t) :
                                     t[j] \notin ClaseToken}})
         : t \in {t0}})

\* `if normalizar_desc(c) in {...}: return ""` then
\* `return limpiar_descripcion(c)`
SalvoPagador(c0) ==
  Unico({IF normalizar_desc(c) \in pagadores THEN <<>>
         ELSE limpiar_descripcion(c)
         : c \in {c0}})

extraer_merchant_regex(texto) ==
  Unico({
    IF Search(re_renta, t).ok THEN <<"R","e","n","t","a">>
    ELSE Unico({
      IF m_en.ok
        THEN SalvoPagador(
               StripChars(AntesDelCorte(Grupo1(m_en, t)), {" ", ".", ",", "-"}))
      ELSE Unico({
        IF m_ct.ok
          THEN SalvoPagador(
                 QuitarPagadorInicial(
                   StripChars(Grupo1(m_ct, t), {" ", ".", ",", "-"})))
        ELSE Unico({
          IF ultima # <<>>
            THEN (IF Lower(ultima) \in pagadores THEN <<>>
                  ELSE limpiar_descripcion(ultima))
          ELSE <<>>
          : ultima \in {UltimaPalabra(t)}})
        : m_ct \in {Search(re_x_con_tarjeta, t)}})
      : m_en \in {Search(re_en_x, t)}})
    : t \in {Strip(texto)}})

(***************************************************************************)
(* Python values decoded from JSON.  t is the type; s the characters of a  *)
(* str; n the value of a number (hundredths), the length of a list, or     *)
(* 1/0 for true/false.  Ausente marks a key the object does not have.      *)
(***************************************************************************)
Str(s) == [t |-> "str", s |-> s, n |-> 0]
Num(n) == [t |-> "num", s |-> <<>>, n |-> n]
Lista(n) == [t |-> "list", s |-> <<>>, n |-> n]
Bool(b) == [t |-> "bool", s |-> <<>>, n |-> IF b THEN 1 ELSE 0]
Null == [t |-> "null", s |-> <<>>, n |-> 0]
Ausente == [t |-> "ausente", s |-> <<>>, n |-> 0]

\* bool(v)
Verdadero(v) ==
  CASE v.t = "str" -> v.s # <<>>
    [] v.t = "num" -> v.n # 0
    [] v.t = "list" -> v.n > 0
    [] v.t = "bool" -> v.n = 1
    [] OTHER -> FALSE

\* data.get(k, default)
Get(data, k, default) == IF data[k] = Ausente THEN default ELSE data[k]

\* v or ""
OrVacio(v) == IF Verdadero(v) THEN v ELSE Str(<<>>)

(***************************************************************************)
(* IA: interpretar_gasto                                                   *)
(***************************************************************************)
\* The model's text is a sequence of tokens: "{" and "}" are braces, "m" is
\* the text of the members of a JSON object (decoding to the record campos),
\* "n" is the JSON literal null and "p" is prose.
SinCampos ==
  [fecha |-> Ausente, descripcion |-> Ausente, monto |-> Ausente,
   metodo |-> Ausente, tarjeta |-> Ausente]

\* json.loads(raw_json): a dict, another JSON value, or JSONDecodeError
json_loads(raw_json, campos) ==
  IF raw_json = <<"{", "m", "}">> THEN [exc |-> "", dict |-> TRUE, data |-> campos]
  ELSE IF raw_json = <<"{", "}">> THEN [exc |-> "", dict |-> TRUE, data |-> SinCampos]
  ELSE IF raw_json = <<"n">> THEN [exc |-> "", dict |-> FALSE, data |-> SinCampos]
  ELSE [exc |-> "JSONDecodeError", dict |-> FALSE, data |-> SinCampos]

\* Variant of the JSON extraction that answers an empty object when the
\* text does not parse
extraer_json_tolerante(raw, campos) ==
  Unico({IF j.exc # "" THEN [exc |-> "", dict |-> TRUE, data |-> SinCampos]
         ELSE j
         : j \in {json_loads(IF Find(raw, "{") # 0 /\ RFind(raw, "}") # 0
                             THEN Sub(raw, Find(raw, "{"), RFind(raw, "}"))
                             ELSE raw, campos)}})

\* lines 294-298
extraer_json(raw, campos) ==
  Unico({json_loads(IF start # 0 /\ end # 0 THEN Sub(raw, start, end) ELSE raw,
                    campos)
         : start \in {Find(raw, "{")}, end \in {RFind(raw, "}")}})

\* a text method (.lower(), .strip()) of `v or ""` raises AttributeError
\* when v is true and not a str
SinMetodoDeTexto(v) == Verdadero(v) /\ v.t # "str"

\* line 301, given that normalizar_desc does not raise
campo_descripcion(data) ==
  limpiar_descripcion(OrVacio(Get(data, "descripcion", Str(<<>>))).s)

\* line 302
campo_tarjeta(data) == Strip(OrVacio(Get(data, "tarjeta", Null)).s)

\* [+-]?\d+(\.\d+)? : the float literals of the model's inputs
re_float ==
  Cat(<<Bos, Opt(Grp(Chr({"+", "-"}))), Plus(Chr(ClaseD)),
        Opt(Cat(<<Chr({"."}), Plus(Chr(ClaseD))>>))>>)

\* float(s) for a str: [ok, n]; not ok is ValueError
float_de_texto(s) ==
  Unico({Unico({
      IF m.ok /\ m.fin = Len(u) /\ u # <<>>
      THEN [ok |-> TRUE,
            n |-> IF m.gs # 0
                  THEN (IF u[1] = "-" THEN 0 - ValorDecimal(Sub(u, 2, Len(u)))
                        ELSE ValorDecimal(Sub(u, 2, Len(u))))
                  ELSE ValorDecimal(u)]
      ELSE [ok |-> FALSE, n |-> 0]
      : m \in {Search(re_float, u)}})
    : u \in {Strip(s)}})

\* lines 304-308
campo_monto(data) ==
  Unico({IF ~Verdadero(v) THEN 0
         ELSE CASE v.t = "num" -> v.n
                [] v.t = "bool" -> 100
                [] v.t = "str" -> float_de_texto(v.s).n
                [] OTHER -> 0
         : v \in {Get(data, "monto", Null)}})

metodos == {s_efectivo, s_tarjeta, s_transferencia, <<>>}

\* Variant of lines 310-316 in which the text's method is used only when
\* the model gave none
campo_metodo_del_modelo(texto, data) ==
  Unico({Unico({IF metodo \notin metodos THEN <<>> ELSE metodo
                : metodo \in {IF metodo_ia # <<>> THEN metodo_ia
                              ELSE detectar_metodo(texto)}})
         : metodo_ia \in {Strip(Lower(OrVacio(Get(data, "metodo", Null)).s))}})

\* lines 310-316
campo_metodo(texto, data) ==
  Unico({Unico({IF metodo \notin metodos THEN <<>> ELSE metodo
                : metodo \in {IF metodo_txt # <<>> THEN metodo_txt
                              ELSE Strip(Lower(
                                     OrVacio(Get(data, "metodo", Null)).s))}})
         : metodo_txt \in {detectar_metodo(texto)}})

\* Variant of lines 318-333 that keeps the model's date whenever it parses
campo_fecha_del_modelo(texto, data, hoy) ==
  Unico({IF fecha_relativa(texto, hoy) # <<>> /\ texto_menciona_fecha(texto)
           THEN fecha_relativa(texto, hoy)
         ELSE IF v.t = "str" /\ fromisoformat_ok(v.s) THEN v.s
         ELSE isoformat(hoy)
         : v \in {Get(data, "fecha", Null)}})

\* lines 318-333
campo_fecha(texto, data, hoy) ==
  IF ~texto_menciona_fecha(texto) THEN isoformat(hoy)
  ELSE Unico({IF rel # <<>> THEN rel
              ELSE IF ~Verdadero(v) THEN isoformat(hoy)
              ELSE IF v.t = "str" /\ fromisoformat_ok(v.s) THEN v.s
              ELSE isoformat(hoy)
              : rel \in {fecha_relativa(texto, hoy)},
                v \in {Get(data, "fecha", Null)}})

\* lines 338-341
fallback_descripcion(texto, desc0) ==
  Unico({IF normalizar_desc(desc) \in pagadores \cup {<<>>}
         THEN extraer_merchant_regex(texto) ELSE desc
         : desc \in {desc0}})

\* lines 343-344
fallback_monto(texto, monto0) ==
  Unico({IF monto = 0 THEN extraer_monto_regex(texto) ELSE monto
         : monto \in {monto0}})

\* Variant of lines 346-348 that leaves the card as the model gave it
fallback_tarjeta_sin_texto(texto, tarjeta0) == tarjeta0

\* lines 346-348
fallback_tarjeta(texto, tarjeta0) ==
  Unico({IF Contains(Lower(texto), s_tarjeta) /\ tarjeta = <<>>
         THEN extraer_tarjeta_regex(texto) ELSE tarjeta
         : tarjeta \in {tarjeta0}})

s_otros == <<"o","t","r","o","s">>

\* lines 350-362; cat1 is the mapping read by `desc_norm in catalogo_gastos`
\* and cat2 the one read by `catalogo_gastos[desc_norm]`
consultar_catalogo(desc, cat1, cat2) ==
  Unico({
    IF desc_norm \in DOMAIN cat1 /\ desc_norm \notin DOMAIN cat2
    THEN [exc |-> "KeyError", categoria |-> <<>>, tipo |-> <<>>]
    ELSE Unico({
      IF desc_norm = s_renta /\ par = <<s_otros, s_otros>>
      THEN [exc |-> "", categoria |-> <<"H","o","g","a","r">>,
            tipo |-> <<"R","e","n","t","a">>]
      ELSE [exc |-> "", categoria |-> par[1], tipo |-> par[2]]
      : par \in {IF desc_norm \in DOMAIN cat1 THEN cat2[desc_norm]
                 ELSE <<s_otros, s_otros>>}})
    : desc_norm \in {normalizar_desc(desc)}})

SinDatos ==
  [fecha |-> <<>>, descripcion |-> <<>>, categoria |-> <<>>, tipo |-> <<>>,
   pagado_por |-> <<>>, monto |-> 0, metodo |-> <<>>, tarjeta |-> <<>>]

Excepcion(e) == [exc |-> e, datos |-> SinDatos]

\* The model's response: the call raises (falla), or returns the text raw
\* whose members decode to campos.
\* interpretar_gasto(texto) with the response, the clock and the two reads
\* of the global catalogue as parameters: [exc, datos], exc = "" on return.
interpretar_gasto(texto, modelo, hoy, cat1, cat2) ==
  IF modelo.falla THEN Excepcion("APIConnectionError")
  ELSE Unico({
    IF j.exc # "" THEN Excepcion(j.exc)
    ELSE IF ~j.dict THEN Excepcion("AttributeError")
    ELSE IF SinMetodoDeTexto(Get(j.data, "descripcion", Str(<<>>)))
      THEN Excepcion("AttributeError")
    ELSE IF SinMetodoDeTexto(Get(j.data, "tarjeta", Null))
      THEN Excepcion("AttributeError")
    ELSE IF SinMetodoDeTexto(Get(j.data, "metodo", Null))
      THEN Excepcion("AttributeError")
    ELSE Unico({Unico({
        IF c.exc # "" THEN Excepcion(c.exc)
        ELSE [exc |-> "",
              datos |->
                [fecha |-> campo_fecha(texto, j.data, hoy),
                 descripcion |-> descripcion,
                 categoria |-> c.categoria,
                 tipo |-> c.tipo,
                 pagado_por |-> detectar_pagado_por(texto),
                 monto |-> fallback_monto(texto, campo_monto(j.data)),
                 metodo |-> campo_metodo(texto, j.data),
                 tarjeta |-> fallback_tarjeta(texto, campo_tarjeta(j.data))]]
        : c \in {consultar_catalogo(descripcion, cat1, cat2)}})
      : descripcion \in
          {fallback_descripcion(texto, campo_descripcion(j.data))}})
    : j \in {extraer_json(modelo.raw, modelo.campos)}})

(***************************************************************************)
(* CATALOGO: cargar_catalogo                                               *)
(***************************************************************************)
\* the empty dict
vacio == <<>>

s_descripcion == <<"d","e","s","c","r","i","p","c","i","o","n">>

\* lines 64-66: drop the first row when its cells, lower-cased and joined
\* with spaces, contain "descripcion"
saltar_encabezado(filas0) ==
  Unico({IF filas # <<>>
              /\ Contains(Join([i \in DOMAIN filas[1] |-> Lower(filas[1][i])]),
                          s_descripcion)
         THEN Tail(filas) ELSE filas
         : filas \in {filas0}})

\* m[k] = v on a dict
Poner(m0, k0, v0) ==
  Unico({[x \in DOMAIN m \cup {k} |-> IF x = k THEN v ELSE m[x]]
         : m \in {m0}, k \in {k0}, v \in {v0}})

\* lines 69-76: one iteration of the loop over filas
agregar_fila(t, fila0) ==
  Unico({IF Len(fila) < 3 THEN t
         ELSE Unico({IF desc # <<>>
                     THEN Poner(t, desc, <<Strip(fila[2]), Strip(fila[3])>>)
                     ELSE t
                     : desc \in {normalizar_desc(fila[1])}})
         : fila \in {fila0}})

\* the dict cargar_catalogo() assigns when get_all_values() returns h
RECURSIVE agregar_filas(_, _)
agregar_filas(t0, filas0) ==
  Unico({IF filas = <<>> THEN t
         ELSE agregar_filas(agregar_fila(t, Head(filas)), Tail(filas))
         : t \in {t0}, filas \in {filas0}})

cargar_catalogo(h) == agregar_filas(vacio, saltar_encabezado(h))

(***************************************************************************)
(* State                                                                   *)
(***************************************************************************)
VARIABLES
  sheet_gastos,     \* TRUE: spreadsheet and sheet_gastos are set; FALSE: both None
  catalogo_gastos,  \* the global dict descripcion_normalizada -> <<categoria, tipo>>
  hoja,             \* the rows of the sheet "Gastos AI", in order
  pc,               \* where the request in flight is
  texto,            \* request.form.get("Body", "")
  hoy,              \* datetime.now().date()
  modelo,           \* the model's response to the request
  visto,            \* the dict read by `desc_norm in catalogo_gastos`
  resultado,        \* [exc, datos]: what registrar_gasto has raised or computed
  respuesta,        \* the message of the TwiML reply, "" while there is none
  n0,               \* history: Len(hoja) when the request arrived
  c_pc,             \* where the cargar_catalogo() in flight is
  c_hoja,           \* what hoja.get_all_values() returned to it
  c_filas,          \* the rows its loop has yet to visit
  tmp               \* its local dict tmp

vars ==
  <<sheet_gastos, catalogo_gastos, hoja, pc, texto, hoy, modelo, visto,
    resultado, respuesta, n0, c_pc, c_hoja, c_filas, tmp>>

vars_peticion == <<pc, texto, hoy, modelo, visto, resultado, respuesta, n0>>
vars_carga == <<c_pc, c_hoja, c_filas, tmp>>

MSG_EXITO == "Gasto registrado:"
MSG_ERROR == "Ocurrio un error al registrar el gasto."

SinModelo == [falla |-> FALSE, raw |-> <<>>, campos |-> SinCampos]
SinResultado == [exc |-> "", datos |-> SinDatos]

(***************************************************************************)
(* interpretar_gasto, in the two steps that read the global catalogue      *)
(***************************************************************************)
\* lines 259-353: everything up to and including `desc_norm in catalogo_gastos`
LeerPertenencia ==
  /\ pc = "interpretar"
  /\ \E r \in {interpretar_gasto(texto, modelo, hoy, catalogo_gastos,
                                  catalogo_gastos)} :
         /\ resultado' = r
         /\ visto' = IF r.exc # "" THEN visto ELSE catalogo_gastos
         /\ pc' = IF r.exc # "" THEN "retorno" ELSE "catalogo"
  /\ UNCHANGED <<sheet_gastos, catalogo_gastos, hoja, texto, hoy, modelo,
                 respuesta, n0>>
  /\ UNCHANGED vars_carga

\* lines 354-364: `catalogo_gastos[desc_norm]` and the return
LeerValor ==
  /\ pc = "catalogo"
  /\ \E c \in {consultar_catalogo(resultado.datos.descripcion, visto,
                                   catalogo_gastos)} :
         resultado' =
           IF c.exc # "" THEN Excepcion(c.exc)
           ELSE [resultado EXCEPT !.datos.categoria = c.categoria,
                                  !.datos.tipo = c.tipo]
  /\ pc' = "retorno"
  /\ UNCHANGED <<sheet_gastos, catalogo_gastos, hoja, texto, hoy, modelo,
                 visto, respuesta, n0>>
  /\ UNCHANGED vars_carga

(***************************************************************************)
(* ENDPOINTS: webhook_whatsapp and registrar_gasto                         *)
(***************************************************************************)
MaxHoja == 2

\* fila of registrar_gasto
Fila(d) ==
  <<d.fecha, d.descripcion, d.categoria, d.tipo, d.pagado_por, d.monto,
    d.metodo, d.tarjeta>>

\* a POST arrives; registrar_gasto raises RuntimeError without a sheet,
\* else interpretar_gasto sends the prompt to the model
Recibir(T, H) ==
  /\ pc \in {"idle", "fin"}
  /\ Len(hoja) < MaxHoja
  /\ \E t \in T, h \in H : texto' = t /\ hoy' = h
  /\ n0' = Len(hoja)
  /\ modelo' = SinModelo
  /\ visto' = vacio
  /\ respuesta' = ""
  /\ IF sheet_gastos
     THEN pc' = "modelo" /\ resultado' = SinResultado
     ELSE pc' = "retorno" /\ resultado' = Excepcion("RuntimeError")
  /\ UNCHANGED <<sheet_gastos, catalogo_gastos, hoja>>
  /\ UNCHANGED vars_carga

\* client_ai.responses.create returns or raises
ModeloResponde(M) ==
  /\ pc = "modelo"
  /\ \E m \in M : modelo' = m
  /\ pc' = "interpretar"
  /\ UNCHANGED <<sheet_gastos, catalogo_gastos, hoja, texto, hoy, visto,
                 resultado, respuesta, n0>>
  /\ UNCHANGED vars_carga

\* sheet_gastos.append_row(fila) returns; the success message is sent
AnexarOk ==
  /\ pc = "retorno" /\ resultado.exc = ""
  /\ hoja' = Append(hoja, Fila(resultado.datos))
  /\ respuesta' = MSG_EXITO
  /\ pc' = "fin"
  /\ UNCHANGED <<sheet_gastos, catalogo_gastos, texto, hoy, modelo, visto,
                 resultado, n0>>
  /\ UNCHANGED vars_carga

\* sheet_gastos.append_row(fila) raises; the except clause answers
AnexarFalla ==
  /\ pc = "retorno" /\ resultado.exc = ""
  /\ resultado' = Excepcion("APIError")
  /\ respuesta' = MSG_ERROR
  /\ pc' = "fin"
  /\ UNCHANGED <<sheet_gastos, catalogo_gastos, hoja, texto, hoy, modelo,
                 visto, n0>>
  /\ UNCHANGED vars_carga

\* the except clause of webhook_whatsapp, for what registrar_gasto raised
ResponderError ==
  /\ pc = "retorno" /\ resultado.exc # ""
  /\ respuesta' = MSG_ERROR
  /\ pc' = "fin"
  /\ UNCHANGED <<sheet_gastos, catalogo_gastos, hoja, texto, hoy, modelo,
                 visto, resultado, n0>>
  /\ UNCHANGED vars_carga

(***************************************************************************)
(* cargar_catalogo(), step by step                                         *)
(***************************************************************************)
\* lines 54-62: without a spreadsheet the global becomes {}; else the
\* worksheet is asked for its values
CargarInicio ==
  /\ c_pc = "idle"
  /\ IF sheet_gastos
     THEN c_pc' = "leyendo" /\ UNCHANGED catalogo_gastos
     ELSE c_pc' = "idle" /\ catalogo_gastos' = vacio
  /\ UNCHANGED <<sheet_gastos, hoja, c_hoja, c_filas, tmp>>
  /\ UNCHANGED vars_peticion

\* lines 62-68: get_all_values() returns h
CargarLee(Hs) ==
  /\ c_pc = "leyendo"
  /\ \E h \in Hs : c_hoja' = h /\ c_filas' = saltar_encabezado(h)
  /\ tmp' = vacio
  /\ c_pc' = "bucle"
  /\ UNCHANGED <<sheet_gastos, catalogo_gastos, hoja>>
  /\ UNCHANGED vars_peticion

\* lines 80-82: worksheet() or get_all_values() raises
CargarFalla ==
  /\ c_pc = "leyendo"
  /\ catalogo_gastos' = vacio
  /\ c_pc' = "idle"
  /\ UNCHANGED <<sheet_gastos, hoja, c_hoja, c_filas, tmp>>
  /\ UNCHANGED vars_peticion

\* Variant of the loop that writes each row into the global dict
CargarFilaEnSitio ==
  /\ c_pc = "bucle" /\ c_filas # <<>>
  /\ catalogo_gastos' = agregar_fila(catalogo_gastos, Head(c_filas))
  /\ c_filas' = Tail(c_filas)
  /\ UNCHANGED <<sheet_gastos, hoja, c_pc, c_hoja, tmp>>
  /\ UNCHANGED vars_peticion

\* lines 69-76: one iteration
CargarFila ==
  /\ c_pc = "bucle" /\ c_filas # <<>>
  /\ tmp' = agregar_fila(tmp, Head(c_filas))
  /\ c_filas' = Tail(c_filas)
  /\ UNCHANGED <<sheet_gastos, catalogo_gastos, hoja, c_pc, c_hoja>>
  /\ UNCHANGED vars_peticion

\* line 78: catalogo_gastos = tmp
CargarIntercambio ==
  /\ c_pc = "bucle" /\ c_filas = <<>>
  /\ catalogo_gastos' = tmp
  /\ c_pc' = "idle"
  /\ UNCHANGED <<sheet_gastos, hoja, c_hoja, c_filas, tmp>>
  /\ UNCHANGED vars_peticion

(***************************************************************************)
(* Inputs                                                                  *)
(***************************************************************************)
\* all sequences over S of length at most n
SecuenciasHasta(S, n) == UNION {[1..k -> S] : k \in 0..n}

\* the texts made of at most n phrases of V, separated by single spaces
Textos(V, n) == {Join(ws) : ws \in SecuenciasHasta(V, n)}

p_walmart == <<"w","a","l","m","a","r","t">>
p_Walmart == <<"W","a","l","m","a","r","t">>
p_uber == <<"u","b","e","r">>
p_Uber == <<"U","b","e","r">>
p_bbva == <<"b","b","v","a">>
p_500 == <<"5","0","0">>
p_playera == <<"p","l","a","y","e","r","a">>
p_mayo == <<"m","a","y","o">>
p_5_6 == <<"5","/","6">>
p_cheque == <<"c","h","e","q","u","e">>
p_un == <<"u","n">>
p_el == <<"e","l">>
p_Dani == <<"D","a","n","i">>
p_Tarjeta == <<"T","a","r","j","e","t","a">>
p_con_tarjeta == <<"c","o","n"," ","t","a","r","j","e","t","a">>
p_abc == <<"a","b","c">>

\* a response whose text is exactly one JSON object with the members c
Objeto(c) == [falla |-> FALSE, raw |-> <<"{", "m", "}">>, campos |-> c]

\* a well-formed object of the model
CamposBase ==
  [fecha |-> Str(<<>>), descripcion |-> Str(p_Walmart), monto |-> Num(50000),
   metodo |-> Str(<<>>), tarjeta |-> Str(<<>>)]

\* the sheet CatalogoGastos when the process started
f_encabezado == <<<<"D","e","s","c","r","i","p","c","i","o","n">>, <<"C","a","t","e","g","o","r","i","a">>, <<"T","i","p","o">>>>
f_walmart == <<<<"W","a","l","m","a","r","t">>, <<"S","u","p","e","r">>, <<"V","a","r","i","a","b","l","e">>>>
f_uber == <<<<"u","b","e","r">>, <<"T","r","a","n","s","p","o","r","t","e">>, <<"V","i","a","j","e">>>>
f_uber2 == <<<<" ","U","b","e","r"," ">>, <<"A","u","t","o">>, <<" ","T","a","x","i"," ">>>>
f_corta == <<<<"o","x","x","o">>, <<"S","u","p","e","r">>>>
f_sin_desc == <<<<" ">>, <<"S","u","p","e","r">>, <<"F","i","j","o">>>>

HojaInicial == <<f_encabezado, f_walmart, f_uber>>

\* datetime.now().date(): after a leap day, at the end and at the start of
\* a year
Hoys ==
  {[y |-> 2024, m |-> 3, d |-> 1], [y |-> 2024, m |-> 12, d |-> 31],
   [y |-> 2025, m |-> 1, d |-> 1]}

(***************************************************************************)
(* Spec: the webhook, one request at a time, the catalogue as loaded at    *)
(* start-up                                                                *)
(***************************************************************************)
MaxRaw == 3

TokensRaw == {"{", "}", "m", "n", "p"}

TextosWebhook == {p_uber \o <<" ">> \o p_500, p_walmart}

CamposWebhook ==
  {CamposBase, [CamposBase EXCEPT !.descripcion = Num(500), !.monto = Str(p_abc)]}

\* the call raises, or returns a non-empty text
ModelosWebhook ==
  {[falla |-> TRUE, raw |-> <<>>, campos |-> SinCampos]}
    \cup {[falla |-> FALSE, raw |-> r, campos |-> c] :
            r \in SecuenciasHasta(TokensRaw, MaxRaw) \ {<<>>}, c \in CamposWebhook}

InitCarga ==
  /\ c_pc = "idle" /\ c_hoja = <<>> /\ c_filas = <<>> /\ tmp = vacio

Init ==
  /\ sheet_gastos \in BOOLEAN
  /\ catalogo_gastos = IF sheet_gastos THEN cargar_catalogo(HojaInicial) ELSE vacio
  /\ hoja = <<>>
  /\ pc = "idle"
  /\ texto = <<>>
  /\ hoy \in Hoys
  /\ modelo = SinModelo
  /\ visto = vacio
  /\ resultado = SinResultado
  /\ respuesta = ""
  /\ n0 = 0
  /\ InitCarga

Next ==
  \/ Recibir(TextosWebhook, {hoy})
  \/ ModeloResponde(ModelosWebhook)
  \/ LeerPertenencia
  \/ LeerValor
  \/ AnexarOk
  \/ AnexarFalla
  \/ ResponderError

Spec == Init /\ [][Next]_vars

(***************************************************************************)
(* Specifications of interpretar_gasto as a function of the text, the      *)
(* model's object and the date: Init draws the inputs, the two steps of    *)
(* interpretar_gasto compute the record.                                   *)
(***************************************************************************)
InitLlamada(T, M, H) ==
  /\ sheet_gastos = TRUE
  /\ catalogo_gastos = cargar_catalogo(HojaInicial)
  /\ hoja = <<>>
  /\ pc = "interpretar"
  /\ texto \in T
  /\ hoy \in H
  /\ modelo \in M
  /\ visto = vacio
  /\ resultado = SinResultado
  /\ respuesta = ""
  /\ n0 = 0
  /\ InitCarga

NextLlamada == LeerPertenencia \/ LeerValor


\* the final record of a call that returned
Final == pc = "retorno" /\ resultado.exc = ""

(***************************************************************************)
(* C1: the ledger and the reply (Spec)                                     *)
(***************************************************************************)
\* the text has a "{" and a later "}" and what lies from the first "{" to
\* the last "}" is a JSON object
ObjetoExtraible(raw) ==
  \E a, b \in DOMAIN raw :
    /\ raw[a] = "{" /\ \A i \in 1..(a - 1) : raw[i] # "{"
    /\ raw[b] = "}" /\ \A i \in (b + 1)..Len(raw) : raw[i] # "}"
    /\ SubSeq(raw, a, b) \in {<<"{", "}">>, <<"{", "m", "}">>}

\* C1: a request appends at most one row, and only after the model call
\* returned and a JSON object was extracted from its text, and then the
\* reply is the success message; when the model call fails, its text holds
\* no parseable JSON object, or the append fails, the request ends with no
\* row appended and with the generic error message as its reply.
C1_FilaSoloTrasExito ==
  /\ Len(hoja) <= n0 + 1
  /\ Len(hoja) = n0 + 1 =>
       /\ pc = "fin"
       /\ ~modelo.falla /\ ObjetoExtraible(modelo.raw)
       /\ respuesta = MSG_EXITO
  /\ (pc = "fin" /\ (modelo.falla \/ ~ObjetoExtraible(modelo.raw)
                       \/ resultado.exc = "APIError")) =>
       Len(hoja) = n0 /\ respuesta = MSG_ERROR

\* a request that found one row in the ledger, whose model text held no
\* JSON object, has ended with the error reply and the ledger as it was
C1_Testigo ==
  /\ pc = "fin" /\ n0 = 1 /\ Len(hoja) = 1
  /\ ~modelo.falla /\ modelo.raw # <<>> /\ ~ObjetoExtraible(modelo.raw)
  /\ respuesta = MSG_ERROR

(***************************************************************************)
(* C2, C3: the date (SpecFecha)                                            *)
(***************************************************************************)
MaxPalabrasFecha == 2

p_Ayer == <<"A","y","e","r">>

PalabrasFecha ==
  {s_antes_de_ayer, s_antier, p_Ayer, s_pasado_manana, s_manana, s_hoy,
   p_mayo, p_playera, p_5_6, p_walmart}

f_bisiesto == <<"2","0","2","4","-","0","2","-","2","9">>
f_no_bisiesto == <<"2","0","2","3","-","0","2","-","2","9">>

\* "fecha" of the model: missing, null, empty, a date, a day that does not
\* exist, a word, a number
FechasModelo ==
  {Ausente, Null, Str(<<>>), Str(f_bisiesto), Str(f_no_bisiesto), Str(p_mayo),
   Num(2024)}

InitFecha ==
  InitLlamada(Textos(PalabrasFecha, MaxPalabrasFecha),
              {Objeto([CamposBase EXCEPT !.fecha = v]) : v \in FechasModelo},
              Hoys)

SpecFecha == InitFecha /\ [][NextLlamada]_vars

\* C2: when texto_menciona_fecha(texto) is false the record's date is
\* today's, whatever the model put in "fecha".
C2_FechaDeHoySinMencion ==
  (Final /\ ~texto_menciona_fecha(texto)) =>
    resultado.datos.fecha = isoformat(hoy)

\* the text mentions no date, the model proposed a real day that is not
\* today, and the record carries today
C2_Testigo ==
  /\ Final /\ texto # <<>> /\ ~texto_menciona_fecha(texto)
  /\ modelo.campos.fecha = Str(f_bisiesto)
  /\ resultado.datos.fecha = isoformat(hoy)
  /\ resultado.datos.fecha # f_bisiesto

\* the relative keywords in the order they are tried, with their days
ClavesRelativas ==
  << [w |-> s_antes_de_ayer, k |-> 0 - 2], [w |-> s_antier, k |-> 0 - 2],
     [w |-> s_ayer, k |-> 0 - 1], [w |-> s_pasado_manana, k |-> 2],
     [w |-> s_manana, k |-> 1], [w |-> s_hoy, k |-> 0] >>

\* C3: when the text mentions a date and contains a relative keyword, the
\* date is today plus the days of the first keyword, in the order antes de
\* ayer / antier, ayer, pasado man~ana, man~ana, hoy, that the lower-cased
\* text contains, whatever the model returned; without a keyword it is the
\* model's date when that parses as a date, and today otherwise.
C3_PrecedenciaRelativa ==
  (Final /\ texto_menciona_fecha(texto)) =>
    \E t \in {Lower(texto)}, v \in {Get(modelo.campos, "fecha", Null)} :
      \E hay \in {{i \in DOMAIN ClavesRelativas :
                     Contains(t, ClavesRelativas[i].w)}} :
        resultado.datos.fecha =
          IF hay # {}
          THEN isoformat(MasDias(hoy,
                 ClavesRelativas[CHOOSE i \in hay : \A j \in hay : i <= j].k))
          ELSE IF v.t = "str" /\ fromisoformat_ok(v.s) THEN v.s
          ELSE isoformat(hoy)

\* "antes de ayer", which contains "ayer", with a real day from the model:
\* the record carries the day two days before today
C3_Testigo ==
  /\ Final /\ Contains(Lower(texto), s_antes_de_ayer)
  /\ modelo.campos.fecha = Str(f_bisiesto)
  /\ resultado.datos.fecha = isoformat(MasDias(hoy, 0 - 2))
  /\ resultado.datos.fecha # f_bisiesto

(***************************************************************************)
(* C4, C8: the method and the card (SpecPago)                              *)
(***************************************************************************)
MaxPalabrasPago == 2

p_transferencia_mayus == <<"T","r","a","n","s","f","e","r","e","n","c","i","a">>
p_Efectivo_ == <<"E","f","e","c","t","i","v","o"," ">>
p_bbva_ == <<" ","b","b","v","a"," ">>

PalabrasPago ==
  {p_transferencia_mayus, s_spei, s_efectivo, s_tarjeta, p_Tarjeta, s_tdc,
   s_con, p_bbva, p_uber}

MetodosModelo ==
  {Ausente, Str(<<>>), Str(s_tarjeta), Str(p_Efectivo_), Str(p_cheque)}

TarjetasModelo == {Ausente, Null, Str(<<" ">>), Str(p_bbva_)}

InitPago ==
  InitLlamada(Textos(PalabrasPago, MaxPalabrasPago),
              {Objeto([CamposBase EXCEPT !.metodo = m, !.tarjeta = c]) :
                 m \in MetodosModelo, c \in TarjetasModelo},
              {[y |-> 2024, m |-> 3, d |-> 1]})

SpecPago == InitPago /\ [][NextLlamada]_vars

\* the method the text shows: transfer indicators before the cash
\* indicator before the card indicators; <<>> when it shows none
MetodoDelTexto(t) ==
  IF \E w \in {s_transferencia, s_spei, s_transfer} : Contains(t, w)
    THEN s_transferencia
  ELSE IF Contains(t, s_efectivo) THEN s_efectivo
  ELSE IF \E w \in {s_tarjeta, s_tdd, s_tdc} : Contains(t, w) THEN s_tarjeta
  ELSE <<>>

\* C4: when detectar_metodo(texto) fires, in the priority transfer
\* indicators > cash indicator > card indicators, the record's method is
\* the detector's value whatever the model's JSON says; and the method of
\* every record is efectivo, tarjeta, transferencia or empty.
C4_MetodoDelTexto ==
  Final =>
    /\ detectar_metodo(texto) = MetodoDelTexto(Lower(texto))
    /\ detectar_metodo(texto) # <<>> =>
         resultado.datos.metodo = detectar_metodo(texto)
    /\ resultado.datos.metodo \in {s_efectivo, s_tarjeta, s_transferencia, <<>>}

\* the text shows a transfer and a card, the model says tarjeta, and the
\* record says transferencia
C4_Testigo ==
  /\ Final
  /\ Contains(Lower(texto), s_transferencia) /\ Contains(Lower(texto), s_tarjeta)
  /\ modelo.campos.metodo = Str(s_tarjeta)
  /\ resultado.datos.metodo = s_transferencia

\* the card field of the model is empty: missing, null, or blank
TarjetaDelModeloVacia ==
  Strip(OrVacio(Get(modelo.campos, "tarjeta", Null)).s) = <<>>

PalabraTras(ws, w) ==
  IF \E i \in 1..(Len(ws) - 1) : Lower(ws[i]) = w
  THEN <<ws[(CHOOSE i \in 1..(Len(ws) - 1) :
               /\ Lower(ws[i]) = w
               /\ \A j \in 1..(i - 1) : Lower(ws[j]) # w) + 1]>>
  ELSE <<>>

\* the card the text names, for a text of words: the word after "tarjeta",
\* else the word after "con" unless it contains "transfer" or "efectivo",
\* else none
TarjetaDelTexto(ws) ==
  IF PalabraTras(ws, s_tarjeta) # <<>> THEN PalabraTras(ws, s_tarjeta)[1]
  ELSE IF PalabraTras(ws, s_con) # <<>>
            /\ ~Contains(Lower(PalabraTras(ws, s_con)[1]), s_transfer)
            /\ ~Contains(Lower(PalabraTras(ws, s_con)[1]), s_efectivo)
    THEN PalabraTras(ws, s_con)[1]
  ELSE <<>>

MaxPalabrasDescripcion == 3

p_oxxo == <<"o","x","x","o">>

PalabrasDescripcion == {s_dani, s_en, p_un, p_walmart, p_con_tarjeta, p_500}

\* "descripcion" of the model: empty, payers, prefixed and plain merchants
DescripcionesModelo ==
  {Str(<<>>), Str(p_Dani), Str(s_dani \o <<" ">> \o s_dani),
   Str(s_en \o <<" ">> \o s_en \o <<" ">> \o p_oxxo),
   Str(p_el \o <<" ">> \o p_un \o <<" ">> \o p_oxxo),
   Str(p_un \o <<" ">> \o s_luisa), Str(p_Walmart)}

InitDescripcion ==
  InitLlamada(Textos(PalabrasDescripcion, MaxPalabrasDescripcion),
              {Objeto([CamposBase EXCEPT !.descripcion = v]) :
                 v \in DescripcionesModelo},
              {[y |-> 2024, m |-> 3, d |-> 1]})

SpecDescripcion == InitDescripcion /\ [][NextLlamada]_vars

\* C5: the description of the record interpretar_gasto returns never
\* normalizes to a payer token (dani, daniela, lui, luisa).
C5_DescripcionNuncaPagador ==
  Final => normalizar_desc(resultado.datos.descripcion) \notin pagadores

\* C9: limpiar_descripcion is idempotent: a record's description that is the
\* cleaned description of the model is left as it is by limpiar_descripcion.
C9_LimpiarIdempotente ==
  (Final /\ resultado.datos.descripcion = campo_descripcion(modelo.campos)) =>
    limpiar_descripcion(resultado.datos.descripcion)
      = resultado.datos.descripcion

(***************************************************************************)
(* C6, C7: the types of the model's fields (SpecCampos)                    *)
(***************************************************************************)
\* "descripcion", "monto", "metodo", "tarjeta" of the model, of every JSON
\* type
CamposDeTipos ==
  [fecha : {Str(<<>>)},
   descripcion : {Ausente, Null, Str(p_Walmart), Num(500), Lista(1), Lista(0)},
   monto : {Ausente, Null, Num(50000), Num(0 - 500), Num(0),
            Str(<<"1","2",".","5">>), Str(<<"-","5">>), Str(p_abc), Lista(1),
            Bool(TRUE)},
   metodo : {Ausente, Str(s_tarjeta), Num(500), Lista(1)},
   tarjeta : {Null, Str(p_bbva), Num(500)}]

InitCampos ==
  InitLlamada({p_walmart, p_uber \o <<" ">> \o p_500},
              {Objeto(c) : c \in CamposDeTipos},
              {[y |-> 2024, m |-> 3, d |-> 1]})

SpecCampos == InitCampos /\ [][NextLlamada]_vars

\* C6: the amount of the record interpretar_gasto returns is not negative,
\* whatever the model put in "monto".
C6_MontoNoNegativo == Final => resultado.datos.monto >= 0

\* C7: once the model's text parses as a JSON object, interpretar_gasto
\* does not raise, whatever the types of its fields: a record is produced.
C7_TiposNuncaFatales ==
  (pc = "retorno" /\ ~modelo.falla /\ ObjetoExtraible(modelo.raw)) =>
    resultado.exc = ""

(***************************************************************************)
(* C10: the catalogue under reload (SpecCatalogo)                          *)
(***************************************************************************)
MaxFilasCatalogo == 2

\* rows get_all_values() may return
FilasCatalogo == {f_encabezado, f_uber, f_uber2, f_corta, f_sin_desc}

HojasCatalogo == SecuenciasHasta(FilasCatalogo, MaxFilasCatalogo)

\* line 371: registrar_gasto, with a sheet, calls interpretar_gasto(texto),
\* which sends the prompt and receives the model's answer
Llamar(T, M) ==
  /\ pc \in {"idle", "retorno"}
  /\ sheet_gastos
  /\ \E t \in T, m \in M : texto' = t /\ modelo' = m
  /\ resultado' = SinResultado
  /\ visto' = vacio
  /\ pc' = "interpretar"
  /\ UNCHANGED <<sheet_gastos, catalogo_gastos, hoja, hoy, respuesta, n0>>
  /\ UNCHANGED vars_carga

InitCatalogo ==
  /\ sheet_gastos \in BOOLEAN
  /\ catalogo_gastos = IF sheet_gastos THEN cargar_catalogo(HojaInicial) ELSE vacio
  /\ hoja = <<>>
  /\ pc = "idle"
  /\ texto = <<>>
  /\ hoy = [y |-> 2024, m |-> 3, d |-> 1]
  /\ modelo = SinModelo
  /\ visto = vacio
  /\ resultado = SinResultado
  /\ respuesta = ""
  /\ n0 = 0
  /\ InitCarga

NextCatalogo ==
  \/ Llamar({p_uber, p_walmart},
            {Objeto([CamposBase EXCEPT !.descripcion = Str(<<>>)])})
  \/ LeerPertenencia
  \/ LeerValor
  \/ CargarInicio
  \/ CargarLee(HojasCatalogo)
  \/ CargarFalla
  \/ CargarFila
  \/ CargarIntercambio

SpecCatalogo == InitCatalogo /\ [][NextCatalogo]_vars

\* the mapping of a whole sheet h: a key for every row after the header
\* that has three cells and a description, with the category and type of
\* the last such row
MapeoCompleto(h) ==
  Unico({[k \in {normalizar_desc(filas[i][1]) : i \in validas} |->
            Unico({<<Strip(filas[i][2]), Strip(filas[i][3])>>
                   : i \in {CHOOSE i \in validas :
                              /\ normalizar_desc(filas[i][1]) = k
                              /\ \A j \in validas :
                                   normalizar_desc(filas[j][1]) = k => j <= i}})]
         : filas \in {saltar_encabezado(h)},
           validas \in {{i \in DOMAIN saltar_encabezado(h) :
                          /\ Len(saltar_encabezado(h)[i]) >= 3
                          /\ normalizar_desc(saltar_encabezado(h)[i][1]) # <<>>}}})

\* C10: whenever the global catalogue changes it becomes the complete
\* mapping of the sheet just read, or the empty mapping of a load that
\* failed, never a partially built one; a reader's read takes the global
\* catalogue as it is at that step; and no step of interpretar_gasto
\* changes the global catalogue.
C10_IntercambioAtomico ==
  [][/\ catalogo_gastos' # catalogo_gastos =>
          catalogo_gastos' \in {MapeoCompleto(c_hoja), vacio}
     /\ visto' # visto => visto' \in {catalogo_gastos, vacio}
     /\ pc' # pc => catalogo_gastos' = catalogo_gastos]_vars

\* a reader is between its two reads, holding the old mapping, while the
\* loader's local dict is partially built
C10_Testigo ==
  /\ pc = "catalogo" /\ visto = catalogo_gastos /\ visto # vacio
  /\ c_pc = "bucle" /\ c_filas # <<>>
  /\ tmp # vacio /\ tmp # MapeoCompleto(c_hoja) /\ tmp # catalogo_gastos

=============================================================================
